---- MODULE Spec2Model ----
(***************************************************************************)
(* KOL Sentiment MCP: the /api/mcp/query endpoint, the KOL action router,  *)
(* the five KOL handlers and the Masa search client with its live-search   *)
(* polling loop.  The provider (Masa HTTP API) is the environment: every   *)
(* provider request is answered by a nondeterministic choice of response.  *)
(***************************************************************************)
EXTENDS Integers, Sequences, FiniteSets, TLC

VARIABLES
    pc,             \* position of the single thread of control
    client,         \* masa_client globals: _initialized, _api_key, _api_url
    nlp_initialized,\* nlp_service global _initialized
    request,        \* the MCP request being served: [id, action, params]
    call,           \* arguments of the running search_kol_content call
    search_uuid,    \* perform_twitter_live_search local
    retry_count,    \* perform_twitter_live_search local
    status_data,    \* perform_twitter_live_search local: last status body
    reqs,           \* provider requests issued by the running search, in order
    sleeps,         \* time.sleep(2) calls made by the running search
    last_body,      \* body of the provider's last 2xx response
    net,            \* the provider's last reply: "ok", or the transport error
    pending_answers,\* status polls the provider answered with a non-terminal status
    outcome,        \* how the last search call ended: return value or exception
    idx,            \* get_kol_trends: position in usernames
    kol_results,    \* get_kol_trends local
    all_topics,     \* get_kol_trends local
    all_sentiments, \* get_kol_trends local
    trace,          \* per loop iteration of get_kol_trends: what the username met
    handler_calls,  \* handler invocations made by handle_kol_action for request
    handler_out,    \* what the handler returned or raised to handle_kol_action
    response        \* what query() returned for the last request

vars == <<pc, client, nlp_initialized, request, call, search_uuid, retry_count,
          status_data, reqs, sleeps, last_body, net, pending_answers, outcome,
          idx, kol_results, all_topics, all_sentiments, trace, handler_calls,
          handler_out, response>>

\* ------------------------------------------------------------------ bounds
MaxItems == 2
MaxUsers == 2
\* The longest batch of sentiment results handed to
\* classify_sentiment_distribution on its own.
MaxBatch == 3
\* The longest sequence of topic occurrences ranked on its own.
MaxOccurrences == 4

\* ------------------------------------------------------- python-isms
\* A string-valued key that is missing from a dict / a value that is None.
Absent == "<absent>"
None == "<None>"
\* A key with a number or a list as its value: <<v>> when present, <<>> when
\* missing.
Missing == <<>>
Some(v) == <<v>>

Min(a, b) == IF a < b THEN a ELSE b
Max(a, b) == IF a > b THEN a ELSE b

\* All sequences over S of length lo..hi.
SeqsUpTo(S, lo, hi) == UNION {[1..n -> S] : n \in lo..hi}

\* ------------------------------------------------- exceptions and returns
Raise(cls, msg) == [kind |-> "raise", cls |-> cls, msg |-> msg]
Return(value) == [kind |-> "return", value |-> value]
NoOutcome == [kind |-> "none"]

\* masa_client.py:35
NotInitializedError ==
    Raise("RuntimeError",
          "Masa API client not initialized. Call initialize_masa_client() first.")
\* masa_client.py:125-127 (and 173-175, 232-234): a RequestException is wrapped
CommunicationErrorSwallowed(e) ==
    [kind |-> "return", value |-> [is_list |-> TRUE, items |-> <<>>]]
CommunicationError(e) ==
    Raise("RuntimeError", "Error communicating with Masa API: " \o e)
\* masa_client.py:86
NoUuidError ==
    Raise("ValueError", "Invalid response from Masa API: No UUID returned")
\* masa_client.py:106-108
JobFailedError(data) ==
    Raise("RuntimeError",
          "Search job failed: " \o
            (IF data.error = Absent THEN "Unknown error" ELSE data.error))
\* masa_client.py:116
JobTimeoutError ==
    Raise("RuntimeError", "Search job timed out after maximum retries")

\* ------------------------------------------------------------ the provider
\* requests.exceptions.RequestException raised by requests.post/get or by
\* raise_for_status(): a connection error, a non-2xx status.
TransportErrors == {"ConnectionError", "HTTPError: 503"}

\* Bodies of the submit response: the uuid is missing, empty or a job id.
SubmitBodies == {[uuid |-> u] : u \in {Absent, "", "job-1"}}

\* Bodies of the status response.
\* A status key that is missing reads as None: neither done nor failed.
NonTerminalStatus == {"pending", Absent}
StatusBodies ==
    {[status |-> s, error |-> Absent] : s \in NonTerminalStatus \cup {"done"}}
    \cup {[status |-> s, error |-> e] :
             s \in {"error", "failed"}, e \in {Absent, "rate limited"}}

\* The texts a caller can send for a single analysis.
Texts == {"great #btc", "awful #eth"}
\* Content items the provider returns: an item with a Content text, and an
\* item without a Content field.
ProviderTexts == {"great #btc"}
Items == {[Content |-> t] : t \in ProviderTexts \cup {Absent}}
\* A result payload: a JSON list of items, or a JSON object (not a list).
List(items) == [is_list |-> TRUE, items |-> items]
NonListPayload == [is_list |-> FALSE, items |-> <<>>]
ResultBodies ==
    {List(items) : items \in SeqsUpTo(Items, 0, MaxItems)} \cup {NonListPayload}

\* ------------------------------------------------------------ masa_client
max_retries == 30

UninitializedClient ==
    [initialized |-> FALSE, api_key |-> None, api_url |-> None]

\* api_url.rstrip("/")
RStripSlash(url) ==
    CASE url = "http://test.api.url/" -> "http://test.api.url"
      [] OTHER -> url

initialize_masa_client(api_key, api_url) ==
    [initialized |-> TRUE, api_key |-> api_key, api_url |-> RStripSlash(api_url)]

\* _check_initialization(): passes when _initialized is set
CheckInitializationSkipped(c) == TRUE
CheckInitialization(c) == c.initialized

\* `if not search_uuid`
MissingUuidOnlyNone(body) == body.uuid = Absent
MissingUuid(body) == body.uuid = Absent \/ body.uuid = ""

\* `while retry_count < max_retries`
LoopCondOffByOne(rc) == rc <= max_retries
LoopCond(rc) == rc < max_retries

\* `if retry_count >= max_retries`
TimedOutEarly(rc) == rc >= max_retries - 1
TimedOut(rc) == rc >= max_retries

\* `status == "done"`
IsDoneNever(data) == FALSE
IsDone(data) == data.status = "done"

\* `status in ["error", "failed"]`
IsFailedOnlyFailed(data) == data.status = "failed"
IsFailed(data) == data.status \in {"error", "failed"}

\* ------------------------------------------------------------ nlp_service
NlpNotInitializedError ==
    Raise("RuntimeError", "NLP service not initialized. Call initialize_nlp() first.")

\* TextBlob(clean_text).sentiment, in hundredths: <<polarity, subjectivity>>.
\* The text has its URLs, mentions and hashtags removed first.
TextBlobSentiment(text) ==
    CASE text = "great #btc" -> <<80, 75>>
      [] text = "awful #eth" -> <<-100, 100>>
      [] OTHER -> <<0, 0>>

\* re.findall(r'#(\w+)', text)
Hashtags(text) ==
    CASE text = "great #btc" -> <<"btc">>
      [] text = "awful #eth" -> <<"eth">>
      [] OTHER -> <<>>

\* list(TextBlob(clean_text).noun_phrases)
NounPhrases(text) == <<>>

\* polarity > 0.1 -> positive, polarity < -0.1 -> negative, else neutral
SentimentLabel(polarity) ==
    IF polarity > 10 THEN "positive"
    ELSE IF polarity < -10 THEN "negative"
    ELSE "neutral"

\* analyze_sentiment, called with the service initialized.  A text that is
\* not a string makes re.sub raise inside the try: the label is "unknown".
analyze_sentiment(text) ==
    IF text = None
    THEN [sentiment |-> "unknown", polarity |-> 0, subjectivity |-> 0,
          text |-> text, error |-> "expected string or bytes-like object"]
    ELSE [sentiment |-> SentimentLabel(TextBlobSentiment(text)[1]),
          polarity |-> TextBlobSentiment(text)[1],
          subjectivity |-> TextBlobSentiment(text)[2],
          text |-> text]

Take(s, n) == IF Len(s) <= n THEN s ELSE SubSeq(s, 1, n)

\* extract_topics, called with the service initialized
extract_topics(text, max_topics) ==
    IF text = None THEN <<>>
    ELSE Take(Hashtags(text) \o
              SelectSeq(NounPhrases(text),
                        LAMBDA np : \A i \in 1..Len(Hashtags(text)) :
                                        Hashtags(text)[i] # np),
              max_topics)

\* batch_analyze_sentiment
batch_analyze_sentiment(texts) ==
    [i \in 1..Len(texts) |-> analyze_sentiment(texts[i])]

RECURSIVE SumField(_, _)
SumField(s, f) == IF s = <<>> THEN 0 ELSE Head(s)[f] + SumField(Tail(s), f)

CountLabel(sentiments, label) ==
    Cardinality({i \in 1..Len(sentiments) : sentiments[i].sentiment = label})

\* A quotient num/den kept exact.
Ratio(num, den) == [num |-> num, den |-> den]

\* classify_sentiment_distribution
classify_sentiment_distribution(sentiments) ==
    IF sentiments = <<>>
    THEN [positive |-> 0, neutral |-> 0, negative |-> 0,
          positive_percentage |-> Ratio(0, 1),
          neutral_percentage |-> Ratio(0, 1),
          negative_percentage |-> Ratio(0, 1),
          average_polarity |-> Ratio(0, 1),
          average_subjectivity |-> Ratio(0, 1)]
    ELSE LET total == Len(sentiments)
             positive_count == CountLabel(sentiments, "positive")
             neutral_count == CountLabel(sentiments, "neutral")
             negative_count == CountLabel(sentiments, "negative")
         IN  [positive |-> positive_count,
              neutral |-> neutral_count,
              negative |-> negative_count,
              positive_percentage |-> Ratio(positive_count * 100, total),
              neutral_percentage |-> Ratio(neutral_count * 100, total),
              negative_percentage |-> Ratio(negative_count * 100, total),
              average_polarity |-> Ratio(SumField(sentiments, "polarity"), total),
              average_subjectivity |->
                  Ratio(SumField(sentiments, "subjectivity"), total)]

\* ------------------------------------------------------------ topic ranking
\* topic_counts: a dict, kept as <<topic, count>> pairs in insertion order.
RECURSIVE TopicCounts(_, _)
TopicCounts(topics, counts) ==
    IF topics = <<>> THEN counts
    ELSE LET t == Head(topics)
             hit == {i \in 1..Len(counts) : counts[i][1] = t}
         IN  TopicCounts(
                 Tail(topics),
                 IF hit = {}
                 THEN Append(counts, <<t, 1>>)
                 ELSE [i \in 1..Len(counts) |->
                          IF i \in hit THEN <<t, counts[i][2] + 1>> ELSE counts[i]])

\* sorted(items, key=lambda x: x[1], reverse=True): stable, descending.
RECURSIVE SortedByCountTiesReversed(_)
SortedByCountTiesReversed(items) ==
    IF items = <<>> THEN <<>>
    ELSE LET rest == SortedByCountTiesReversed(SubSeq(items, 1, Len(items) - 1))
             x == items[Len(items)]
             before == SelectSeq(rest, LAMBDA y : y[2] > x[2])
             after == SelectSeq(rest, LAMBDA y : y[2] <= x[2])
         IN  before \o <<x>> \o after
RECURSIVE SortedByCount(_)
SortedByCount(items) ==
    IF items = <<>> THEN <<>>
    ELSE LET rest == SortedByCount(SubSeq(items, 1, Len(items) - 1))
             x == items[Len(items)]
             before == SelectSeq(rest, LAMBDA y : y[2] >= x[2])
             after == SelectSeq(rest, LAMBDA y : y[2] < x[2])
         IN  before \o <<x>> \o after

\* sorted_topics[:n] of the topic occurrences
RankTopics(topics, n) == Take(SortedByCount(TopicCounts(topics, <<>>)), n)

\* ------------------------------------------------------------ kol_actions
\* app.config['DEFAULT_MAX_RESULTS']
DEFAULT_MAX_RESULTS == 10

NoParams ==
    [query |-> Absent, text |-> Absent, username |-> Absent, usernames |-> Missing,
     search_type |-> Absent, max_results |-> Missing,
     max_results_per_kol |-> Missing, kol_username |-> Absent]

\* params.get(key, default)
Get(params, key, default) ==
    IF params[key] = Absent THEN default ELSE params[key]
\* int(params.get(key, default))
GetInt(params, key, default) ==
    IF params[key] = Missing THEN default ELSE params[key][1]

\* max_results = min(max(1, max_results), 100)
ClampNoLower(max_results) == Min(max_results, 100)
Clamp(max_results) == Min(Max(1, max_results), 100)

NoCall == [kind |-> "none"]

\* search_kol_content up to its call of the search client: the arguments the
\* client is called with, or the ValueError raised before any call.
SearchCall(params) ==
    IF params.query = Absent
    THEN Raise("ValueError", "Missing required parameter: query")
    ELSE LET search_type == Get(params, "search_type", "indexed")
             max_results == Clamp(GetInt(params, "max_results", DEFAULT_MAX_RESULTS))
             kol_username == Get(params, "kol_username", None)
             has_kol == kol_username # None /\ kol_username # ""
             query == IF has_kol /\ search_type = "live"
                      THEN "from:" \o kol_username \o " " \o params.query
                      ELSE params.query
             keywords == IF has_kol /\ search_type # "live"
                         THEN <<"@" \o kol_username>>
                         ELSE <<>>
         IN  IF search_type \in {"live", "indexed", "hybrid"}
             THEN [kind |-> "call", mode |-> search_type, query |-> query,
                   max_results |-> max_results, keywords |-> keywords,
                   kol_username |-> kol_username]
             ELSE Raise("ValueError", "Invalid search_type: " \o search_type)

\* The body of the provider request the client builds from its arguments.
ProviderRequest(kind, c) ==
    CASE kind = "submit" ->
            [kind |-> kind,
             body |-> [type |-> "twitter-scraper",
                       arguments |-> [type |-> "searchbyquery", query |-> c.query,
                                      max_results |-> c.max_results]]]
      [] kind = "indexed" ->
            [kind |-> kind,
             body |-> [query |-> c.query, max_results |-> c.max_results,
                       keywords |-> c.keywords]]
      [] kind = "hybrid" ->
            [kind |-> kind,
             body |-> [similarity_query |-> [query |-> c.query, weight |-> 70],
                       text_query |-> [query |-> c.query, weight |-> 30],
                       max_results |-> c.max_results, keywords |-> c.keywords]]
      [] OTHER -> [kind |-> kind, body |-> None]

\* isinstance(results, list)
IsList(results) == results.is_list

\* The dict search_kol_content returns.
SearchResults(c, results) ==
    [query |-> c.query, search_type |-> c.mode, max_results |-> c.max_results,
     kol_username |-> c.kol_username, results |-> results,
     result_count |-> IF IsList(results) THEN Some(Len(results.items)) ELSE Missing]

\* [result.get('Content', '') for result in results[:5]]
ContentTextsKeepAll(items) ==
    [i \in 1..Len(items) |->
        IF items[i].Content = Absent THEN "" ELSE items[i].Content]

\* texts = [result.get('Content', '') for result in results if 'Content' in result]
ContentTexts(items) ==
    LET has == SelectSeq(items, LAMBDA r : r.Content # Absent)
    IN  [i \in 1..Len(has) |-> has[i].Content]

RECURSIVE TopicsOfTexts(_, _)
TopicsOfTexts(texts, max_topics) ==
    IF texts = <<>> THEN <<>>
    ELSE extract_topics(Head(texts), max_topics)
         \o TopicsOfTexts(Tail(texts), max_topics)

UnexpectedFormatError ==
    Raise("ValueError", "Unexpected search results format: <class 'dict'>")

\* analyze_kol_sentiment after its search returned `results`
SentimentOfResults(params, results) ==
    IF ~IsList(results) THEN UnexpectedFormatError
    ELSE LET texts == ContentTexts(results.items)
             sentiment_results == batch_analyze_sentiment(texts)
         IN  IF texts # <<>> /\ ~nlp_initialized THEN NlpNotInitializedError
             ELSE Return([query |-> params.query,
                          kol_username |-> Get(params, "kol_username", None),
                          sentiment_results |-> sentiment_results,
                          sentiment_distribution |->
                              classify_sentiment_distribution(sentiment_results),
                          result_count |-> Len(texts),
                          single_analysis |-> FALSE])

\* extract_kol_topics after its search returned `results`
TopicsOfResults(params, results) ==
    IF ~IsList(results) THEN UnexpectedFormatError
    ELSE LET texts == ContentTexts(results.items)
             all == TopicsOfTexts(texts, 5)
         IN  IF texts # <<>> /\ ~nlp_initialized THEN NlpNotInitializedError
             ELSE Return([query |-> params.query,
                          kol_username |-> Get(params, "kol_username", None),
                          top_topics |-> RankTopics(all, 5),
                          all_topics |-> TopicCounts(all, <<>>),
                          result_count |-> Len(texts),
                          single_analysis |-> FALSE])

\* analyze_kol_insights after its search returned `results`
InsightsOfResults(params, results) ==
    IF ~IsList(results) THEN UnexpectedFormatError
    ELSE LET texts == ContentTexts(results.items)
             query == Get(params, "query", "")
             recent == ContentTextsKeepAll(Take(results.items, 5))
         IN  IF texts = <<>>
             THEN Return([username |-> params.username, query |-> query,
                          error |-> "No content found for this KOL",
                          success |-> FALSE])
             ELSE IF ~nlp_initialized THEN NlpNotInitializedError
             ELSE Return([username |-> params.username, query |-> query,
                          content_count |-> Len(texts),
                          sentiment_distribution |->
                              classify_sentiment_distribution(
                                  batch_analyze_sentiment(texts)),
                          top_topics |-> RankTopics(TopicsOfTexts(texts, 10), 10),
                          recent_content |->
                              [i \in 1..Len(recent) |->
                                  [text |-> recent[i],
                                   sentiment |-> analyze_sentiment(recent[i]),
                                   topics |-> extract_topics(recent[i], 3)]],
                          success |-> TRUE])

\* get_kol_trends: `if not isinstance(usernames, list): usernames = [usernames]`
\* A bare string is kept as [is_list |-> FALSE, value |-> <<string>>].
UsernameList(params) ==
    IF params.usernames[1].is_list THEN params.usernames[1].value
    ELSE <<params.usernames[1].value[1]>>

\* The search_params each handler passes to search_kol_content.
SearchParams(action, params, i) ==
    CASE action = "kol.search" -> params
      [] action \in {"kol.sentiment", "kol.topics"} ->
            [NoParams EXCEPT
                !.query = params.query,
                !.search_type = Get(params, "search_type", "indexed"),
                !.max_results = Some(GetInt(params, "max_results", DEFAULT_MAX_RESULTS)),
                !.kol_username = Get(params, "kol_username", None)]
      [] action = "kol.insights" ->
            [NoParams EXCEPT
                !.query = Get(params, "query", ""),
                !.search_type = Get(params, "search_type", "indexed"),
                !.max_results = Some(GetInt(params, "max_results", DEFAULT_MAX_RESULTS)),
                !.kol_username = params.username]
      [] action = "kol.trends" ->
            [NoParams EXCEPT
                !.query = Get(params, "query", ""),
                !.search_type = Get(params, "search_type", "indexed"),
                !.max_results = Some(GetInt(params, "max_results_per_kol", 10)),
                !.kol_username = UsernameList(params)[i]]

\* What a handler does before its first search: "search" when it goes on to
\* search_kol_content, else the value it returns or the exception it raises.
HandlerEntry(action, params) ==
    CASE action = "kol.search" -> [kind |-> "search"]
      [] action = "kol.sentiment" ->
            IF params.text # Absent
            THEN IF ~nlp_initialized THEN NlpNotInitializedError
                 ELSE Return([text |-> params.text,
                              sentiment |-> analyze_sentiment(params.text),
                              single_analysis |-> TRUE])
            ELSE IF params.query # Absent THEN [kind |-> "search"]
            ELSE Raise("ValueError",
                   "Missing required parameter: either 'text' or 'query' must be provided")
      [] action = "kol.topics" ->
            IF params.text # Absent
            THEN IF ~nlp_initialized THEN NlpNotInitializedError
                 ELSE Return([text |-> params.text,
                              topics |-> extract_topics(params.text, 5),
                              topic_count |-> Len(extract_topics(params.text, 5)),
                              single_analysis |-> TRUE])
            ELSE IF params.query # Absent THEN [kind |-> "search"]
            ELSE Raise("ValueError",
                   "Missing required parameter: either 'text' or 'query' must be provided")
      [] action = "kol.insights" ->
            IF params.username = Absent
            THEN Raise("ValueError", "Missing required parameter: username")
            ELSE [kind |-> "search"]
      [] action = "kol.trends" ->
            IF params.usernames = Missing
            THEN Raise("ValueError", "Missing required parameter: usernames")
            ELSE IF UsernameList(params) = <<>>
            THEN Raise("ValueError", "Empty usernames list")
            ELSE [kind |-> "search"]
      [] OTHER -> Raise("ValueError", "Unknown KOL action: " \o action)

\* What a single-search handler does with the way its search ended.
HandlerExit(action, params, c, out) ==
    IF out.kind = "raise" THEN out
    ELSE CASE action = "kol.search" -> Return(SearchResults(c, out.value))
           [] action = "kol.sentiment" -> SentimentOfResults(params, out.value)
           [] action = "kol.topics" -> TopicsOfResults(params, out.value)
           [] action = "kol.insights" -> InsightsOfResults(params, out.value)

\* get_kol_trends: the loop body for one username, given how its
\* search_kol_content call ended.  entry = <<>>: kol_results is left alone.
TrendsIterationNoErrorEntry(out) ==
    IF out.kind = "raise" \/ ~IsList(out.value)
    THEN [entry |-> <<>>, topics |-> <<>>, sentiments |-> <<>>]
    ELSE LET texts == ContentTexts(out.value.items)
         IN  IF texts = <<>> \/ ~nlp_initialized
             THEN [entry |-> <<>>, topics |-> <<>>, sentiments |-> <<>>]
             ELSE [entry |->
                      <<[content_count |-> Len(texts),
                         topics |-> TopicsOfTexts(texts, 5),
                         sentiment_distribution |->
                             classify_sentiment_distribution(
                                 batch_analyze_sentiment(texts))]>>,
                   topics |-> TopicsOfTexts(texts, 5),
                   sentiments |-> batch_analyze_sentiment(texts)]
TrendsIteration(out) ==
    IF out.kind = "raise"
    THEN [entry |-> <<[error |-> out.msg]>>, topics |-> <<>>, sentiments |-> <<>>]
    ELSE IF ~IsList(out.value)
    THEN [entry |-> <<>>, topics |-> <<>>, sentiments |-> <<>>]
    ELSE LET texts == ContentTexts(out.value.items)
             sentiment_results == batch_analyze_sentiment(texts)
             kol_topics == TopicsOfTexts(texts, 5)
         IN  IF texts = <<>>
             THEN [entry |-> <<[content_count |-> 0, error |-> "No content found"]>>,
                   topics |-> <<>>, sentiments |-> <<>>]
             ELSE IF ~nlp_initialized
             THEN [entry |-> <<[error |-> NlpNotInitializedError.msg]>>,
                   topics |-> <<>>, sentiments |-> <<>>]
             ELSE [entry |->
                      <<[content_count |-> Len(texts), topics |-> kol_topics,
                         sentiment_distribution |->
                             classify_sentiment_distribution(sentiment_results)]>>,
                   topics |-> kol_topics, sentiments |-> sentiment_results]

\* kol_results[username] = entry
Put(d, k, v) == [x \in DOMAIN d \cup {k} |-> IF x = k THEN v ELSE d[x]]

EmptyDict == [x \in {} |-> <<>>]

\* sum(1 for k, v in kol_results.items() if "error" not in v)
AnalyzedCount(results) ==
    Cardinality({k \in DOMAIN results : "error" \notin DOMAIN results[k]})

\* The dict get_kol_trends returns after its loop.
TrendsResult(params, results, topics, sentiments) ==
    [usernames |-> UsernameList(params),
     query |-> Get(params, "query", ""),
     top_trends |-> RankTopics(topics, 10),
     kol_count |-> Len(UsernameList(params)),
     analyzed_count |-> AnalyzedCount(results),
     overall_sentiment |-> classify_sentiment_distribution(sentiments),
     kol_results |-> results,
     success |-> TRUE]

\* handle_kol_action: the handler's value, or the envelope for its exception.
ErrorEnvelopeSuccess(action, e) ==
    [error |-> e.msg, action |-> action, success |-> TRUE]
ErrorEnvelope(action, e) ==
    [error |-> e.msg, action |-> action, success |-> FALSE]

handle_kol_action(action, out) ==
    IF out.kind = "raise" THEN ErrorEnvelope(action, out) ELSE out.value

\* ------------------------------------------------------------ routes/mcp
\* mcp_request.action.startswith("kol.")
NamespaceAlwaysKol(action) == "kol"
Namespace(action) ==
    CASE action \in {"kol.search", "kol.sentiment", "kol.topics", "kol.insights",
                     "kol.trends", "kol.unknown"} -> "kol"
      [] OTHER -> "other"

\* jsonify(MCPResponse(id=..., result=result).dict())
ResultResponse(id, result) ==
    [status |-> 200, id |-> id, field |-> "result", value |-> result]
\* jsonify(MCPResponse(id=..., error=MCPError(code, message)).dict()), status
ErrorResponse(status, id, code, message) ==
    [status |-> status, id |-> id, field |-> "error",
     value |-> [code |-> code, message |-> message]]
NotJsonResponse ==
    [status |-> 400, id |-> None, field |-> "plain",
     value |-> [error |-> "Request body must be JSON"]]
NoResponse == [status |-> 0, id |-> None, field |-> "none", value |-> <<>>]

\* What query() answers once handle_kol_action has returned `result`.
QueryResponse(req, result) == ResultResponse(req.id, result)

\* ------------------------------------------------------------ requests
MaxResultsInputs == {0, 101}
SearchTypeInputs == {Absent, "live", "indexed", "hybrid", "bogus"}
\* The usernames of a kol.trends request: the first n KOLs of a roster, n up
\* to MaxUsers, one list that names a KOL twice, and a bare string.
Username(i) == "kol" \o ToString(i)
UsernameLists ==
    {[i \in 1..n |-> Username(i)] : n \in 0..MaxUsers}
    \cup {<<Username(1), Username(1)>>}

SearchInputs ==
    {[NoParams EXCEPT !.search_type = st, !.max_results = mr] :
        st \in SearchTypeInputs,
        mr \in {Missing} \cup {Some(n) : n \in MaxResultsInputs}}

UsernamesInputs ==
    {Missing, Some([is_list |-> FALSE, value |-> <<Username(1)>>])}
    \cup {Some([is_list |-> TRUE, value |-> us]) : us \in UsernameLists}

ParamsOf(action) ==
    CASE action = "kol.search" ->
            {[p EXCEPT !.query = q, !.kol_username = k] :
                p \in SearchInputs, q \in {Absent, "ai"}, k \in {Absent, Username(1)}}
      [] action \in {"kol.sentiment", "kol.topics"} ->
            {NoParams} \cup {[NoParams EXCEPT !.text = t] : t \in Texts}
            \cup {[p EXCEPT !.query = "ai"] : p \in SearchInputs}
      [] action = "kol.insights" ->
            {NoParams} \cup {[p EXCEPT !.username = Username(1)] : p \in SearchInputs}
      [] action = "kol.trends" ->
            {[NoParams EXCEPT !.usernames = us, !.search_type = p.search_type,
                              !.max_results_per_kol = p.max_results] :
                us \in UsernamesInputs, p \in SearchInputs}
      [] OTHER -> {NoParams}

Actions == {"kol.search", "kol.sentiment", "kol.topics", "kol.insights",
            "kol.trends", "kol.unknown", "other.ping"}

\* The HTTP requests POSTed to /api/mcp/query.
Requests ==
    {[kind |-> k, id |-> "1", action |-> "", params |-> NoParams] :
        k \in {"not_json", "malformed"}}
    \cup UNION {{[kind |-> "mcp", id |-> "1", action |-> a, params |-> p] :
                    p \in ParamsOf(a)} : a \in Actions}

NoRequest == [kind |-> "none", id |-> "", action |-> "", params |-> NoParams]
NoStatus == [status |-> Absent, error |-> Absent]
NoBody == <<>>

\* ------------------------------------------------------------ the machine
Init ==
    /\ pc = "boot"
    /\ client = UninitializedClient
    /\ nlp_initialized = FALSE
    /\ request = NoRequest
    /\ call = NoCall
    /\ search_uuid = None
    /\ retry_count = 0
    /\ status_data = NoStatus
    /\ reqs = <<>>
    /\ sleeps = 0
    /\ last_body = NoBody
    /\ net = "none"
    /\ pending_answers = 0
    /\ outcome = NoOutcome
    /\ idx = 0
    /\ kol_results = EmptyDict
    /\ all_topics = <<>>
    /\ all_sentiments = <<>>
    /\ trace = <<>>
    /\ handler_calls = 0
    /\ handler_out = NoOutcome
    /\ response = NoResponse

\* The locals of a perform_twitter_*_search call as they are before the call.
ResetSearchLocals ==
    /\ search_uuid' = None
    /\ retry_count' = 0
    /\ status_data' = NoStatus
    /\ reqs' = <<>>
    /\ sleeps' = 0
    /\ last_body' = NoBody
    /\ net' = "none"
    /\ pending_answers' = 0

\* create_app: the client is initialized only when MASA_API_KEY is set; the
\* NLP service only when enabled and its downloads succeed.
CreateApp ==
    /\ pc = "boot"
    /\ \E key \in {None, "", "test_key"},
          url \in {"http://test.api.url", "http://test.api.url/"},
          nlp \in BOOLEAN :
          /\ client' = IF key \in {None, ""} THEN client
                       ELSE initialize_masa_client(key, url)
          /\ nlp_initialized' = nlp
    /\ pc' = "idle"
    /\ UNCHANGED <<request, call, search_uuid, retry_count, status_data, reqs,
                   sleeps, last_body, net, pending_answers, outcome, idx,
                   kol_results, all_topics, all_sentiments, trace, handler_calls,
                   handler_out, response>>

\* search_kol_content(search_params) up to the first provider request of the
\* search client it calls, _check_initialization() included.
StartSearch(search_params) ==
    LET c == SearchCall(search_params)
    IN  /\ ResetSearchLocals
        /\ IF c.kind = "raise"
           THEN call' = NoCall /\ outcome' = c /\ pc' = "resume"
           ELSE /\ call' = c
                /\ IF ~CheckInitialization(client)
                   THEN outcome' = NotInitializedError /\ pc' = "resume"
                   ELSE /\ outcome' = NoOutcome
                        /\ pc' = IF c.mode = "live" THEN "submit" ELSE "post"

\* handle_kol_action returns and query() answers the request.
Finish(req, out) ==
    /\ handler_out' = out
    /\ response' = QueryResponse(req, handle_kol_action(req.action, out))
    /\ pc' = "responded"
    /\ call' = NoCall
    /\ ResetSearchLocals

\* query(): a request arrives; it is routed, and a KOL action runs its handler
\* up to the handler's first provider request.
Serve(requests) ==
    /\ pc = "idle"
    /\ \E req \in requests :
        /\ request' = req
        /\ idx' = 1
        /\ kol_results' = EmptyDict
        /\ all_topics' = <<>>
        /\ all_sentiments' = <<>>
        /\ trace' = <<>>
        /\ IF req.kind = "mcp" /\ Namespace(req.action) = "kol"
           THEN LET entry == HandlerEntry(req.action, req.params)
                IN  /\ handler_calls' = IF req.action = "kol.unknown" THEN 0 ELSE 1
                    /\ IF entry.kind = "search"
                       THEN /\ StartSearch(SearchParams(req.action, req.params, 1))
                            /\ handler_out' = NoOutcome
                            /\ response' = NoResponse
                       ELSE /\ Finish(req, entry)
                            /\ outcome' = NoOutcome
           ELSE /\ handler_calls' = 0
                /\ handler_out' = NoOutcome
                /\ outcome' = NoOutcome
                /\ pc' = "responded"
                /\ call' = NoCall
                /\ ResetSearchLocals
                /\ response' =
                     CASE req.kind = "not_json" -> NotJsonResponse
                       [] req.kind = "malformed" ->
                            ErrorResponse(500, req.id, "INTERNAL_ERROR",
                                          "validation error for MCPRequest")
                       [] OTHER ->
                            ErrorResponse(400, req.id, "UNSUPPORTED_ACTION",
                                          "Unsupported action: " \o req.action)
    /\ UNCHANGED <<client, nlp_initialized>>

Query == Serve(Requests)

\* perform_twitter_live_search: the submit POST and the uuid check.
Submit ==
    /\ pc = "submit"
    /\ reqs' = Append(reqs, ProviderRequest("submit", call))
    /\ \/ \E e \in TransportErrors :
            /\ net' = e
            /\ outcome' = CommunicationError(e)
            /\ pc' = "resume"
            /\ UNCHANGED <<search_uuid, last_body>>
       \/ \E body \in SubmitBodies :
            /\ net' = "ok"
            /\ last_body' = body
            /\ search_uuid' = body.uuid
            /\ IF MissingUuid(body)
               THEN outcome' = NoUuidError /\ pc' = "resume"
               ELSE pc' = "poll" /\ UNCHANGED outcome
    /\ UNCHANGED <<client, nlp_initialized, request, call, retry_count,
                   status_data, sleeps, pending_answers, idx, kol_results,
                   all_topics, all_sentiments, trace, handler_calls,
                   handler_out, response>>

\* One iteration of the polling loop: the status GET, then break, raise, or
\* sleep and count.
PollStatus ==
    /\ pc = "poll"
    /\ LoopCond(retry_count)
    /\ reqs' = Append(reqs, ProviderRequest("status", call))
    /\ \/ \E e \in TransportErrors :
            /\ net' = e
            /\ outcome' = CommunicationError(e)
            /\ pc' = "resume"
            /\ UNCHANGED <<status_data, last_body, sleeps, retry_count,
                           pending_answers>>
       \/ \E body \in StatusBodies :
            /\ net' = "ok"
            /\ status_data' = body
            /\ last_body' = body
            /\ pending_answers' =
                 IF body.status \in {"done", "error", "failed"}
                 THEN pending_answers ELSE pending_answers + 1
            /\ IF IsDone(body)
               THEN pc' = "after_loop"
                    /\ UNCHANGED <<outcome, sleeps, retry_count>>
               ELSE IF IsFailed(body)
               THEN outcome' = JobFailedError(body) /\ pc' = "resume"
                    /\ UNCHANGED <<sleeps, retry_count>>
               ELSE /\ sleeps' = sleeps + 1
                    /\ retry_count' = retry_count + 1
                    /\ pc' = "poll"
                    /\ UNCHANGED outcome
    /\ UNCHANGED <<client, nlp_initialized, request, call, search_uuid, idx,
                   kol_results, all_topics, all_sentiments, trace,
                   handler_calls, handler_out, response>>

\* The loop is left (break, or its condition is false) and the retry budget
\* is checked.
AfterLoop ==
    /\ IF pc = "poll" THEN ~LoopCond(retry_count) ELSE pc = "after_loop"
    /\ IF TimedOut(retry_count)
       THEN outcome' = JobTimeoutError /\ pc' = "resume"
       ELSE pc' = "fetch" /\ UNCHANGED outcome
    /\ UNCHANGED <<client, nlp_initialized, request, call, search_uuid,
                   retry_count, status_data, reqs, sleeps, last_body, net,
                   pending_answers, idx, kol_results, all_topics,
                   all_sentiments, trace, handler_calls, handler_out, response>>

\* `return results_response.json()`
LiveReturn(results_body, status_body) == Return(results_body)

\* The result GET.
FetchResults ==
    /\ pc = "fetch"
    /\ reqs' = Append(reqs, ProviderRequest("result", call))
    /\ \/ \E e \in TransportErrors :
            /\ net' = e
            /\ outcome' = CommunicationError(e)
            /\ UNCHANGED last_body
       \/ \E body \in ResultBodies :
            /\ net' = "ok"
            /\ last_body' = body
            /\ outcome' = LiveReturn(body, status_data)
    /\ pc' = "resume"
    /\ UNCHANGED <<client, nlp_initialized, request, call, search_uuid,
                   retry_count, status_data, sleeps, pending_answers, idx,
                   kol_results, all_topics, all_sentiments, trace,
                   handler_calls, handler_out, response>>

\* perform_twitter_indexed_search / perform_twitter_hybrid_search: one POST.
PostSearch ==
    /\ pc = "post"
    /\ reqs' = Append(reqs, ProviderRequest(call.mode, call))
    /\ \/ \E e \in TransportErrors :
            /\ net' = e
            /\ outcome' = CommunicationError(e)
            /\ UNCHANGED last_body
       \/ \E body \in ResultBodies :
            /\ net' = "ok"
            /\ last_body' = body
            /\ outcome' = Return(body)
    /\ pc' = "resume"
    /\ UNCHANGED <<client, nlp_initialized, request, call, search_uuid,
                   retry_count, status_data, sleeps, pending_answers, idx,
                   kol_results, all_topics, all_sentiments, trace,
                   handler_calls, handler_out, response>>

\* What a username's iteration met: its search or its analysis raised, its
\* payload was not a list, or its payload held n items with a Content field.
Met(username, out) ==
    LET n == IF out.kind = "return" /\ out.value.is_list
             THEN Cardinality({i \in 1..Len(out.value.items) :
                                  out.value.items[i].Content # Absent})
             ELSE 0
    IN  [user |-> username,
         n |-> n,
         kind |-> IF out.kind = "raise" THEN "raised"
                  ELSE IF ~out.value.is_list THEN "nonlist"
                  ELSE IF n = 0 THEN "nocontent"
                  ELSE IF ~nlp_initialized THEN "raised"
                  ELSE "content"]

\* The search call has ended: the handler goes on.  A single-search handler
\* returns or raises; get_kol_trends records the username and either starts
\* the next username's search or returns.
Resume ==
    /\ pc = "resume"
    /\ IF request.action = "kol.trends"
       THEN LET it == TrendsIteration(outcome)
                username == UsernameList(request.params)[idx]
                results == IF it.entry = <<>> THEN kol_results
                           ELSE Put(kol_results, username, it.entry[1])
                topics == all_topics \o it.topics
                sentiments == all_sentiments \o it.sentiments
            IN  /\ kol_results' = results
                /\ trace' = Append(trace, Met(username, outcome))
                /\ all_topics' = topics
                /\ all_sentiments' = sentiments
                /\ IF idx < Len(UsernameList(request.params))
                   THEN /\ idx' = idx + 1
                        /\ StartSearch(SearchParams(request.action,
                                                    request.params, idx + 1))
                        /\ UNCHANGED <<handler_out, response>>
                   ELSE /\ Finish(request,
                                  Return(TrendsResult(request.params, results,
                                                      topics, sentiments)))
                        /\ UNCHANGED <<idx, outcome>>
       ELSE /\ Finish(request, HandlerExit(request.action, request.params, call, outcome))
            /\ UNCHANGED <<idx, kol_results, all_topics, all_sentiments, trace,
                           outcome>>
    /\ UNCHANGED <<client, nlp_initialized, request, handler_calls>>

\* The response is sent; the worker waits for the next request, and what it
\* held for the request it served is gone.
Idle ==
    /\ pc = "responded"
    /\ pc' = "idle"
    /\ request' = NoRequest
    /\ outcome' = NoOutcome
    /\ idx' = 0
    /\ kol_results' = EmptyDict
    /\ all_topics' = <<>>
    /\ all_sentiments' = <<>>
    /\ trace' = <<>>
    /\ handler_calls' = 0
    /\ handler_out' = NoOutcome
    /\ response' = NoResponse
    /\ UNCHANGED <<client, nlp_initialized, call, search_uuid, retry_count,
                   status_data, reqs, sleeps, last_body, net, pending_answers>>

Next ==
    \/ CreateApp
    \/ Query
    \/ Submit
    \/ PollStatus
    \/ AfterLoop
    \/ FetchResults
    \/ PostSearch
    \/ Resume
    \/ Idle

Spec == Init /\ [][Next]_vars

\* ------------------------------------------------------------ properties
\* Provider requests of one kind issued by the running search.
NumReqs(kind) == Cardinality({i \in 1..Len(reqs) : reqs[i].kind = kind})

\* The provider's last status answer reported the job as error or failed.
IsFailedStatus == status_data.status \in {"error", "failed"}

\* The running call is a live search on an initialized client.
LiveCall == call.kind = "call" /\ call.mode = "live" /\ client.initialized
\* perform_twitter_live_search has returned or raised; its caller has not
\* gone on yet.
LiveEnded == pc = "resume" /\ LiveCall

\* C1: when the provider answers the first k status polls (0 <= k <= 29) with
\* a non-terminal status and the next one with done, the client has issued
\* exactly k+1 status polls and slept exactly k times; it then issues exactly
\* one result GET and returns that response's payload (the call ends another
\* way only when the result GET itself fails in transport).
C1_DoneAfterKPolls ==
    (LiveCall /\ IsDone(status_data)) =>
        /\ pending_answers \in 0..(max_retries - 1)
        /\ NumReqs("status") = pending_answers + 1
        /\ sleeps = pending_answers
        /\ pc \in {"after_loop", "fetch", "resume"}
        /\ pc \in {"after_loop", "fetch"} => NumReqs("result") = 0
        /\ pc = "resume" =>
            /\ NumReqs("result") = 1
            /\ reqs[Len(reqs)].kind = "result"
            /\ IF net = "ok"
               THEN outcome.kind = "return" /\ outcome.value = last_body
               ELSE outcome.kind = "raise" /\ net \in TransportErrors

C1_Witness ==
    /\ LiveEnded
    /\ IsDone(status_data)
    /\ pending_answers = max_retries - 1
    /\ outcome.kind = "return"
    /\ outcome.value.is_list
    /\ Len(outcome.value.items) = 2

\* C2: when the provider answers 30 consecutive status polls with a
\* non-terminal status the search fails with the timeout error after exactly
\* 30 status polls and 30 sleeps and no result GET; no search ever issues
\* more than 30 status polls.
C2_TimeoutAfterBudget ==
    /\ NumReqs("status") <= max_retries
    /\ (LiveCall /\ pending_answers >= max_retries) =>
        /\ pending_answers = max_retries
        /\ NumReqs("status") = max_retries
        /\ sleeps = max_retries
        /\ NumReqs("result") = 0
        /\ pc \in {"poll", "resume"}
        /\ pc = "resume" =>
            /\ outcome.kind = "raise"
            /\ outcome.msg = "Search job timed out after maximum retries"

C2_Witness ==
    /\ LiveEnded
    /\ pending_answers = max_retries
    /\ outcome.kind = "raise"
    /\ outcome.msg = "Search job timed out after maximum retries"

\* C3: a status response of error or failed ends the search at once with the
\* job-failed error that carries the provider's error message of that
\* response; the failing status poll is the last request of the search: no
\* sleep follows it, no further poll and no result GET.
C3_AtFailedStatus ==
    (LiveCall /\ IsFailedStatus) =>
        /\ pc = "resume"
        /\ outcome.kind = "raise"
        /\ outcome.cls = "RuntimeError"
        /\ outcome.msg =
              IF status_data.error = Absent
              THEN "Search job failed: Unknown error"
              ELSE "Search job failed: " \o status_data.error
        /\ reqs[Len(reqs)].kind = "status"
        /\ NumReqs("status") = pending_answers + 1
        /\ sleeps = pending_answers
        /\ NumReqs("result") = 0

\* The request log and the sleep count of the search are not extended: they
\* stay, or they are cleared when the caller goes on.
NothingMoreIssued ==
    /\ reqs' = reqs \/ reqs' = <<>>
    /\ sleeps' = sleeps \/ sleeps' = 0

C3_FailedStatusEndsSearch ==
    /\ []C3_AtFailedStatus
    /\ [][(LiveCall /\ IsFailedStatus) => NothingMoreIssued]_vars

C3_Witness ==
    /\ LiveEnded
    /\ status_data = [status |-> "failed", error |-> "rate limited"]
    /\ pending_answers = 2
    /\ outcome.kind = "raise"

\* C4: a transport failure of the submit POST, of a status GET or of the
\* result GET ends the live search with the communication error; the failing
\* request is the last one the search issues and nothing is returned.
C4_AtTransportFailure ==
    (LiveCall /\ net \in TransportErrors) =>
        /\ pc = "resume"
        /\ outcome.kind = "raise"
        /\ outcome.cls = "RuntimeError"
        /\ outcome.msg = "Error communicating with Masa API: " \o net
        /\ reqs # <<>>

C4_TransportFailureEndsSearch ==
    /\ []C4_AtTransportFailure
    /\ [][(LiveCall /\ net \in TransportErrors) => NothingMoreIssued]_vars

C4_Witness ==
    /\ LiveEnded
    /\ net \in TransportErrors
    /\ reqs[Len(reqs)].kind = "result"
    /\ pending_answers = 3

\* C5: a submit response without a job identifier (uuid missing or empty)
\* ends the live search with the no-UUID error before any status poll or
\* result GET.
C5_NoUuidEndsSearch ==
    (LiveCall /\ search_uuid \in {Absent, ""}) =>
        /\ pc = "resume"
        /\ outcome.kind = "raise"
        /\ outcome.cls = "ValueError"
        /\ outcome.msg = "Invalid response from Masa API: No UUID returned"
        /\ NumReqs("status") = 0
        /\ NumReqs("result") = 0
        /\ Len(reqs) = 1

C5_Witness ==
    /\ LiveEnded
    /\ search_uuid = ""
    /\ outcome.kind = "raise"

\* The max_results value a provider request carries.
SentMaxResults(r) ==
    IF r.kind = "submit" THEN r.body.arguments.max_results
    ELSE r.body.max_results

\* C7: every search request sent to the provider (the live submit, the
\* indexed POST, the hybrid POST), whatever KOL action and whatever
\* max_results the caller supplied, carries a max_results in [1, 100].
C7_MaxResultsClamped ==
    \A i \in 1..Len(reqs) :
        reqs[i].kind \in {"submit", "indexed", "hybrid"} =>
            SentMaxResults(reqs[i]) \in 1..100

C7_Witness ==
    /\ request.action = "kol.trends"
    /\ request.params.max_results_per_kol = Some(101)
    /\ request.params.search_type = "live"
    /\ idx = 2
    /\ Len(reqs) > 1
    /\ SentMaxResults(reqs[1]) = 100

\* The last loop iteration of get_kol_trends that handled username u.
LastIteration(u) ==
    CHOOSE i \in 1..Len(trace) :
        /\ trace[i].user = u
        /\ \A j \in (i + 1)..Len(trace) : trace[j].user # u

\* get_kol_trends has returned or raised after entering its loop.
TrendsEnded ==
    /\ pc = "responded"
    /\ request.kind = "mcp"
    /\ request.action = "kol.trends"
    /\ request.params.usernames # Missing
    /\ UsernameList(request.params) # <<>>

KolAnswered ==
    /\ pc = "responded"
    /\ request.kind = "mcp"
    /\ Namespace(request.action) = "kol"

\* C9 as stated: handle_kol_action answers every failure raised by a handler
\* or by the search client with the envelope {error, action, success: false}.
C9_EveryFailureIsEnveloped ==
    KolAnswered =>
        /\ response.field = "result"
        /\ handler_calls <= 1
        /\ \A e \in {handler_out, outcome} :
              e.kind = "raise" =>
                  response.value =
                      [error |-> e.msg, action |-> request.action, success |-> FALSE]

\* C9: handle_kol_action never lets an exception propagate (query() answers
\* 200 with a result), it runs the handler at most once, and every exception
\* that leaves the handler comes back as {error: its message, action: the
\* requested name, success: false}; a search-client failure leaves every
\* handler but get_kol_trends, which keeps it as that username's error entry
\* and returns its result.
C9_HandlerFailureIsEnveloped ==
    KolAnswered =>
        /\ response.status = 200
        /\ response.field = "result"
        /\ handler_calls <= 1
        /\ handler_out.kind \in {"raise", "return"}
        /\ handler_out.kind = "raise" =>
              response.value =
                  [error |-> handler_out.msg, action |-> request.action,
                   success |-> FALSE]
        /\ handler_out.kind = "return" => response.value = handler_out.value
        /\ (outcome.kind = "raise" /\ request.action # "kol.trends") =>
              handler_out = outcome
        /\ (outcome.kind = "raise" /\ request.action = "kol.trends") =>
              /\ handler_out.kind = "return"
              /\ response.value.success = TRUE
              /\ response.value.kol_results[trace[Len(trace)].user] =
                    [error |-> outcome.msg]

C9_Witness ==
    /\ KolAnswered
    /\ request.action = "kol.insights"
    /\ outcome = JobTimeoutError
    /\ response.value =
          [error |-> "Search job timed out after maximum retries",
           action |-> "kol.insights", success |-> FALSE]

\* The handler rejected the request's parameters.
ValidationFailed ==
    /\ handler_out.kind = "raise"
    /\ handler_out.cls = "ValueError"
    /\ handler_out.msg \in
          {"Missing required parameter: query",
           "Missing required parameter: username",
           "Missing required parameter: usernames",
           "Missing required parameter: either 'text' or 'query' must be provided",
           "Empty usernames list",
           "Invalid search_type: bogus"}

\* C10: a request that fails validation is answered by /query with a 4xx
\* status and an error, not with a successful response.
C10_ValidationFailureIs4xx ==
    (KolAnswered /\ ValidationFailed) =>
        /\ response.status \in 400..499
        /\ response.field = "error"

\* perform_twitter_live_search is running: it has not returned or raised.
LiveRunning == LiveCall /\ pc \in {"submit", "poll", "after_loop", "fetch"}

\* The ways perform_twitter_live_search ends.
EndFetched ==
    /\ outcome.kind = "return"
    /\ IsDone(status_data)
    /\ NumReqs("result") = 1
    /\ reqs[Len(reqs)].kind = "result"
    /\ net = "ok"
EndFailed ==
    /\ IsFailedStatus
    /\ outcome = JobFailedError(status_data)
    /\ NumReqs("result") = 0
EndTimedOut ==
    /\ outcome = JobTimeoutError
    /\ ~IsDone(status_data)
    /\ ~IsFailedStatus
    /\ pending_answers = max_retries
    /\ NumReqs("result") = 0
EndCommunicationError ==
    /\ net \in TransportErrors
    /\ outcome = CommunicationError(net)
EndNoUuid ==
    /\ MissingUuid([uuid |-> search_uuid])
    /\ outcome = NoUuidError
    /\ NumReqs("status") = 0

NumTrue(bools) == Cardinality({i \in 1..Len(bools) : bools[i]})

\* C6 as stated: a live search that has ended has ended in exactly one of
\* done and fetched, failed, timed out, communication error.
C6_EndsInOneOfFour ==
    LiveEnded =>
        NumTrue(<<EndFetched, EndFailed, EndTimedOut, EndCommunicationError>>) = 1

\* The serving thread keeps running and every HTTP request it issues comes
\* back, with an answer or with a transport error.
\* The requests of LiveSpec are the kol.search requests.
QuerySearch ==
    Serve({req \in Requests : req.kind = "mcp" /\ req.action = "kol.search"})

NextSearch ==
    \/ CreateApp
    \/ QuerySearch
    \/ Submit
    \/ PollStatus
    \/ AfterLoop
    \/ FetchResults
    \/ PostSearch
    \/ Resume
    \/ Idle

LiveSpec == Init /\ [][NextSearch]_vars /\ WF_vars(NextSearch)

\* C6: every live search that was started ends, within max_retries polls,
\* and it ends in exactly one of: done followed by the result fetch, failed,
\* timed out, communication error, or the provider's submit answer carrying
\* no uuid.
C6_LiveSearchEnds ==
    /\ LiveRunning ~> LiveEnded
    /\ [](LiveRunning => /\ retry_count <= max_retries
                         /\ NumReqs("status") <= max_retries)
    /\ [](LiveEnded =>
            NumTrue(<<EndFetched, EndFailed, EndTimedOut, EndCommunicationError,
                      EndNoUuid>>) = 1)

C6_Witness ==
    /\ LiveEnded
    /\ EndTimedOut
    /\ NumReqs("status") = max_retries
    /\ sleeps = max_retries

\* ------------------------------------------ classify_sentiment_distribution
\* The texts of a batch: one per label analyze_sentiment can give (positive,
\* negative, neutral, and unknown for a Content that is not a string).
BatchTexts == Texts \cup {"meh", None}
SentimentBatches ==
    SeqsUpTo({analyze_sentiment(t) : t \in BatchTexts}, 0, MaxBatch)

\* batch_analyze_sentiment has produced a batch.
Analyze ==
    /\ pc = "boot"
    /\ \E batch \in SentimentBatches : all_sentiments' = batch
    /\ pc' = "analyzed"
    /\ UNCHANGED <<client, nlp_initialized, request, call, search_uuid,
                   retry_count, status_data, reqs, sleeps, last_body, net,
                   pending_answers, outcome, idx, kol_results, all_topics,
                   trace, handler_calls, handler_out, response>>

\* classify_sentiment_distribution(sentiments) returns.
Classify ==
    /\ pc = "analyzed"
    /\ handler_out' = Return(classify_sentiment_distribution(all_sentiments))
    /\ pc' = "classified"
    /\ UNCHANGED <<client, nlp_initialized, request, call, search_uuid,
                   retry_count, status_data, reqs, sleeps, last_body, net,
                   pending_answers, outcome, idx, kol_results, all_topics,
                   all_sentiments, trace, handler_calls, response>>

NextDist == Analyze \/ Classify

DistSpec == Init /\ [][NextDist]_vars

\* The three percentages of a distribution add up to `percent`.
PercentagesSumTo(d, percent) ==
    /\ d.positive_percentage.den = d.neutral_percentage.den
    /\ d.positive_percentage.den = d.negative_percentage.den
    /\ d.positive_percentage.num + d.neutral_percentage.num
         + d.negative_percentage.num = percent * d.positive_percentage.den

\* C11: for a batch with labels among positive, neutral, negative and
\* unknown, the three percentages of classify_sentiment_distribution add up
\* to 100 when the batch is non-empty; for the empty batch every count,
\* percentage and average is 0.
C11_PercentagesSumTo100 ==
    pc = "classified" =>
        LET d == handler_out.value
        IN  IF all_sentiments # <<>>
            THEN PercentagesSumTo(d, 100)
            ELSE /\ PercentagesSumTo(d, 0)
                 /\ d.positive = 0 /\ d.neutral = 0 /\ d.negative = 0
                 /\ d.positive_percentage.num = 0
                 /\ d.neutral_percentage.num = 0
                 /\ d.negative_percentage.num = 0
                 /\ d.average_polarity.num = 0
                 /\ d.average_subjectivity.num = 0

\* ------------------------------------------------------------ topic ranking
\* The topics extract_topics can give, and the occurrence sequences a handler
\* collects from them with all_topics.extend(...).
TopicNames == {"btc", "eth", "ai"}
TopicOccurrences == SeqsUpTo(TopicNames, 0, MaxOccurrences)

\* all_topics has been collected from the texts.
Collect ==
    /\ pc = "boot"
    /\ \E topics \in TopicOccurrences : all_topics' = topics
    /\ pc' = "collected"
    /\ UNCHANGED <<client, nlp_initialized, request, call, search_uuid,
                   retry_count, status_data, reqs, sleeps, last_body, net,
                   pending_answers, outcome, idx, kol_results, all_sentiments,
                   trace, handler_calls, handler_out, response>>

\* topic_counts is built and sorted_topics[:10] is taken.
Rank ==
    /\ pc = "collected"
    /\ handler_out' = Return(RankTopics(all_topics, 10))
    /\ pc' = "ranked"
    /\ UNCHANGED <<client, nlp_initialized, request, call, search_uuid,
                   retry_count, status_data, reqs, sleeps, last_body, net,
                   pending_answers, outcome, idx, kol_results, all_topics,
                   all_sentiments, trace, handler_calls, response>>

NextRank == Collect \/ Rank

RankSpec == Init /\ [][NextRank]_vars

\* The number of occurrences of topic t in the sequence, and the position of
\* its first one.
Occurrences(topics, t) == Cardinality({i \in 1..Len(topics) : topics[i] = t})
FirstSeen(topics, t) ==
    CHOOSE i \in 1..Len(topics) :
        topics[i] = t /\ \A j \in 1..(i - 1) : topics[j] # t

\* C12: the ranked topic list lists every topic of the occurrence sequence
\* once with its number of occurrences, in non-increasing order of count, and
\* topics with equal counts in the order in which they were first seen.
C12_RankingIsStable ==
    pc = "ranked" =>
        LET ranked == handler_out.value
        IN  /\ {ranked[i][1] : i \in 1..Len(ranked)} =
                 {all_topics[i] : i \in 1..Len(all_topics)}
            /\ \A i \in 1..Len(ranked) :
                  ranked[i][2] = Occurrences(all_topics, ranked[i][1])
            /\ \A i, j \in 1..Len(ranked) :
                  i < j =>
                    /\ ranked[i][1] # ranked[j][1]
                    /\ ranked[i][2] >= ranked[j][2]
                    /\ ranked[i][2] = ranked[j][2] =>
                          FirstSeen(all_topics, ranked[i][1])
                            < FirstSeen(all_topics, ranked[j][1])

C12_Witness ==
    /\ pc = "ranked"
    /\ all_topics = <<"eth", "btc", "ai", "ai">>
    /\ handler_out.value = <<<<"ai", 2>>, <<"eth", 1>>, <<"btc", 1>>>>

\* ------------------------------------------------------------ unknown actions
\* The actions handle_kol_action dispatches to a handler.
KnownActions ==
    {"kol.search", "kol.sentiment", "kol.topics", "kol.insights", "kol.trends"}

\* The request being served names an action that has no handler.
UnknownActionRequest == request.kind = "mcp" /\ request.action \notin KnownActions

\* C13: a request whose action is not one of the five known actions is
\* answered in the step it arrives with an unknown-action error (the envelope
\* of "Unknown KOL action: <name>" under kol., the UNSUPPORTED_ACTION error
\* with status 400 elsewhere); no handler runs, no search is started and no
\* request is sent to the provider.
C13_UnknownActionFails ==
    UnknownActionRequest =>
        /\ pc = "responded"
        /\ handler_calls = 0
        /\ call = NoCall
        /\ outcome = NoOutcome
        /\ reqs = <<>>
        /\ trace = <<>>
        /\ IF request.action = "kol.unknown"
           THEN /\ handler_out =
                     Raise("ValueError", "Unknown KOL action: " \o request.action)
                /\ response.field = "result"
                /\ response.value =
                     [error |-> "Unknown KOL action: " \o request.action,
                      action |-> request.action, success |-> FALSE]
           ELSE /\ handler_out = NoOutcome
                /\ response =
                     ErrorResponse(400, request.id, "UNSUPPORTED_ACTION",
                                   "Unsupported action: " \o request.action)

C13_Witness ==
    /\ UnknownActionRequest
    /\ request.action = "kol.unknown"
    /\ pc = "responded"
    /\ client.initialized
    /\ response.value.error = "Unknown KOL action: kol.unknown"

\* ------------------------------------------------------------ request order
\* The job of the running live search is terminal: done or error/failed was
\* observed, or the retry budget is used up.
JobTerminal ==
    /\ LiveCall
    /\ \/ status_data.status \in {"done", "error", "failed"}
       \/ retry_count >= max_retries

\* This step issues a status GET.
StatusIssued ==
    /\ Len(reqs') = Len(reqs) + 1
    /\ reqs'[Len(reqs')].kind = "status"

\* The requests of the running live search so far: one submit POST first,
\* then status GETs, then at most one result GET, last, after a done answer.
C14_RequestsInOrder ==
    (LiveCall /\ reqs # <<>>) =>
        /\ reqs[1].kind = "submit"
        /\ \A i \in 2..Len(reqs) : reqs[i].kind \in {"status", "result"}
        /\ \A i \in 2..Len(reqs) :
              reqs[i].kind = "result" =>
                  /\ i = Len(reqs)
                  /\ i > 2
                  /\ reqs[i - 1].kind = "status"
                  /\ status_data.status = "done"

\* C14: in every live search the provider requests are one submit POST, then
\* status GETs, then at most one result GET, issued only after a status
\* answer of done; once the job is terminal (done, error or failed observed,
\* or the retry budget used up) no status GET is issued for it.
C14_OrderedAndNeverResumed ==
    /\ []C14_RequestsInOrder
    /\ [][JobTerminal => ~StatusIssued]_vars

C14_Witness ==
    /\ LiveCall
    /\ Len(reqs) = 4
    /\ reqs[1].kind = "submit"
    /\ reqs[2].kind = "status"
    /\ reqs[3].kind = "status"
    /\ reqs[4].kind = "result"
    /\ outcome.kind = "return"

\* ------------------------------------------------------------ Content filter
\* The number of items of the payload that have a Content field.
WithContent(items) ==
    Cardinality({i \in 1..Len(items) : items[i].Content # Absent})

\* A single-search analysis handler has answered after its search returned a
\* list of items, with the NLP service initialized.
AnalysisAnswered(action) ==
    /\ KolAnswered
    /\ request.action = action
    /\ nlp_initialized
    /\ outcome.kind = "return"
    /\ outcome.value.is_list

\* What the claim says of kol.sentiment, kol.topics and kol.trends.
ContentlessDroppedElsewhere ==
    /\ AnalysisAnswered("kol.sentiment") =>
          /\ handler_out.kind = "return"
          /\ response.value.result_count = WithContent(outcome.value.items)
          /\ Len(response.value.sentiment_results) = WithContent(outcome.value.items)
          /\ \A i \in 1..Len(response.value.sentiment_results) :
                response.value.sentiment_results[i].text \in ProviderTexts
    /\ AnalysisAnswered("kol.topics") =>
          /\ handler_out.kind = "return"
          /\ response.value.result_count = WithContent(outcome.value.items)
    /\ \A i \in 1..Len(trace) :
          (TrendsEnded /\ nlp_initialized /\ i = LastIteration(trace[i].user)
              /\ trace[i].kind \in {"content", "nocontent"}) =>
                response.value.kol_results[trace[i].user].content_count = trace[i].n

\* What the claim says of kol.insights.
ContentlessDroppedInInsights ==
    AnalysisAnswered("kol.insights") =>
        /\ handler_out.kind = "return"
        /\ WithContent(outcome.value.items) > 0 =>
              /\ response.value.content_count = WithContent(outcome.value.items)
              /\ Len(response.value.recent_content)
                    <= WithContent(outcome.value.items)
              /\ \A i \in 1..Len(response.value.recent_content) :
                    response.value.recent_content[i].text \in ProviderTexts

\* C15: in kol.sentiment, kol.topics, kol.insights and kol.trends a provider
\* item without a Content field is dropped: it is not analyzed, it is not in
\* the output, it raises nothing, and the reported count is the number of
\* items that have a Content field.
C15_ContentlessItemsDropped ==
    /\ ContentlessDroppedElsewhere
    /\ ContentlessDroppedInInsights

\* ------------------------------------------------------------ kol.trends
\* The usernames of the request, as a set.
RequestedUsernames ==
    {UsernameList(request.params)[i] : i \in 1..Len(UsernameList(request.params))}

\* An entry of kol_results is a full analysis / carries an error field.
IsFullEntry(entry) ==
    DOMAIN entry = {"content_count", "topics", "sentiment_distribution"}
IsErrorEntry(entry) == "error" \in DOMAIN entry

\* C16: after get_kol_trends returns, every requested username has an entry
\* in kol_results, a full analysis or one with an error field, whatever the
\* provider returned for it; analyzed_count plus the number of error entries
\* is the number of distinct requested usernames.
C16_EveryUsernameHasEntry ==
    TrendsEnded =>
        LET results == response.value.kol_results
        IN  /\ \A u \in RequestedUsernames :
                  /\ u \in DOMAIN results
                  /\ IsFullEntry(results[u]) \/ IsErrorEntry(results[u])
            /\ response.value.analyzed_count
                 + Cardinality({u \in DOMAIN results : IsErrorEntry(results[u])})
                 = Cardinality(RequestedUsernames)

\* The usernames whose entry in kol_results is a full analysis.
FullyAnalyzed(results) == {u \in DOMAIN results : IsFullEntry(results[u])}

\* The topics and the texts the full entries of the usernames in S hold.
RECURSIVE EntryTopics(_, _)
EntryTopics(results, S) ==
    IF S = {} THEN 0
    ELSE LET u == CHOOSE x \in S : TRUE
         IN  Len(results[u].topics) + EntryTopics(results, S \ {u})
RECURSIVE EntryTexts(_, _)
EntryTexts(results, S) ==
    IF S = {} THEN 0
    ELSE LET u == CHOOSE x \in S : TRUE
         IN  results[u].content_count + EntryTexts(results, S \ {u})

\* The topic occurrences counted in top_trends, and the sentiment results
\* counted in overall_sentiment.
RECURSIVE TrendOccurrences(_)
TrendOccurrences(top_trends) ==
    IF top_trends = <<>> THEN 0
    ELSE Head(top_trends)[2] + TrendOccurrences(Tail(top_trends))
OverallCount(d) == d.positive + d.neutral + d.negative

\* C17: top_trends and overall_sentiment of get_kol_trends hold the topics
\* and sentiment results of the usernames that have a full analysis entry and
\* nothing else: a username that ends with an error entry contributes nothing.
C17_ErrorEntriesContributeNothing ==
    TrendsEnded =>
        LET results == response.value.kol_results
            full == FullyAnalyzed(results)
        IN  /\ TrendOccurrences(response.value.top_trends) =
                 EntryTopics(results, full)
            /\ OverallCount(response.value.overall_sentiment) =
                 EntryTexts(results, full)
            /\ full = {} =>
                 /\ response.value.top_trends = <<>>
                 /\ response.value.overall_sentiment =
                       classify_sentiment_distribution(<<>>)

\* ------------------------------------------------------------ client state
\* A search client call is being made or has just ended.
InSearchCall == pc \in {"submit", "poll", "after_loop", "fetch", "post", "resume"}

\* While the client is not initialized, a search call has raised the
\* not-initialized error and has sent nothing.
C18_AtUninitialized ==
    ~client.initialized =>
        /\ client = UninitializedClient
        /\ reqs = <<>>
        /\ sleeps = 0
        /\ pc \notin {"submit", "poll", "after_loop", "fetch", "post"}
        /\ (pc = "resume" /\ call.kind = "call") => outcome = NotInitializedError

\* C18: while the client is not initialized every call of the three search
\* operations fails without sending any request to the provider; an
\* initialized client stays initialized; no search operation changes the
\* stored base URL or credential.
C18_ClientConfiguration ==
    /\ []C18_AtUninitialized
    /\ [][client.initialized => client' = client]_vars
    /\ [][InSearchCall => client' = client]_vars
    /\ [][~client.initialized => reqs' = <<>>]_vars

C18_Witness ==
    /\ ~client.initialized
    /\ pc = "resume"
    /\ call.kind = "call"
    /\ call.mode = "hybrid"
    /\ outcome = NotInitializedError
    /\ reqs = <<>>

====
